---- MODULE Spec2Model ----
(***************************************************************************)
(* CST_PlottingTools: the colormap re-centering function CenteredColorMap  *)
(* (utils.py) and its caller Heatmap (CRF_heatmap.py).                      *)
(*                                                                         *)
(* Numbers.  The program computes in IEEE doubles (numpy scalars).  A      *)
(* number is modelled as a pair <<n, d>> in lowest terms with d >= 0:      *)
(* d > 0 is the rational n/d, and d = 0 is one of the three non-finite     *)
(* doubles, <<1,0>> = +inf, <<-1,0>> = -inf, <<0,0>> = nan.  Rounding of   *)
(* finite results is not modelled; the non-finite cases follow IEEE 754,   *)
(* which numpy scalars use (a division by zero warns and yields inf/nan).  *)
(***************************************************************************)
EXTENDS Integers, Sequences, FiniteSets, TLC

\* ------------------------------------------------------------------ bounds
\* direct calls use vmin = 0 and draw vcenter and vmax from -1..MaxVal
MaxVal == 3
\* the non-default start/stop offsets are 1/OffsetDen and 1 - 1/OffsetDen
OffsetDen == 4
\* the output gradient is queried at q/QueryDen, q = 0..QueryDen
QueryDen == 3
\* two concurrent activations: inside the loop an activation is preempted only
\* every SwitchInterval iterations (outside the loop, after every line)
SwitchInterval == 128
\* TwoVarLineplot: arrays of 1..MaxRows rows and 1..MaxCols columns, z_dim of
\* up to MaxLines indices
MaxRows == 2
MaxCols == 2
MaxLines == 2

\* ------------------------------------------------------- program constants
\* np.linspace(start, stop, 513)
NumRegular == 513
\* np.linspace(0.0, midpoint, 256, endpoint=False)
NumLower == 256
\* np.linspace(midpoint, 1.0, 257, endpoint=True)
NumUpper == 257
\* a named matplotlib colormap holds a lookup table of 256 colours
LutSize == 256

\* ------------------------------------------------------------- arithmetic
Abs(n) == IF n < 0 THEN -n ELSE n

Sign(n) == IF n < 0 THEN -1 ELSE IF n > 0 THEN 1 ELSE 0

RECURSIVE Gcd(_, _)
Gcd(a, b) == IF b = 0 THEN a ELSE Gcd(b, a % b)

\* the number n/d (d any integer); n/0 is +inf, -inf or nan by the sign of n
Rat(n, d) ==
    IF d = 0 THEN <<Sign(n), 0>>
    ELSE LET g == Gcd(Abs(n), Abs(d))
             s == IF d < 0 THEN -1 ELSE 1
         IN  <<(s * n) \div g, (s * d) \div g>>

Num(n) == <<n, 1>>
Zero == <<0, 1>>
One == <<1, 1>>
NaN == <<0, 0>>

IsFinite(a) == a[2] > 0
IsNaN(a) == a = NaN

FNeg(a) == <<-a[1], a[2]>>

\* IEEE addition: nan absorbs, inf + (-inf) = nan, inf + finite = inf
FAdd(a, b) ==
    IF IsFinite(a) /\ IsFinite(b) THEN Rat(a[1] * b[2] + b[1] * a[2], a[2] * b[2])
    ELSE IF IsNaN(a) \/ IsNaN(b) THEN NaN
    ELSE IF ~IsFinite(a) /\ ~IsFinite(b) THEN (IF a = b THEN a ELSE NaN)
    ELSE IF IsFinite(a) THEN b ELSE a

FSub(a, b) == FAdd(a, FNeg(b))

\* IEEE multiplication: nan absorbs, 0 * inf = nan
FMul(a, b) ==
    IF IsFinite(a) /\ IsFinite(b) THEN Rat(a[1] * b[1], a[2] * b[2])
    ELSE IF IsNaN(a) \/ IsNaN(b) THEN NaN
    ELSE IF a[1] = 0 \/ b[1] = 0 THEN NaN
    ELSE <<Sign(a[1]) * Sign(b[1]), 0>>

\* IEEE division: x/0 = +-inf, 0/0 = nan, inf/inf = nan, finite/inf = 0
FDiv(a, b) ==
    IF IsFinite(a) /\ IsFinite(b) THEN Rat(a[1] * b[2], a[2] * b[1])
    ELSE IF IsNaN(a) \/ IsNaN(b) THEN NaN
    ELSE IF ~IsFinite(a) /\ ~IsFinite(b) THEN NaN
    ELSE IF IsFinite(a) THEN Zero
    ELSE <<a[1] * (IF b[1] < 0 THEN -1 ELSE 1), 0>>

\* IEEE comparisons: every ordered comparison with nan is false
FLess(a, b) ==
    IF IsNaN(a) \/ IsNaN(b) THEN FALSE
    ELSE IF IsFinite(a) /\ IsFinite(b) THEN a[1] * b[2] < b[1] * a[2]
    ELSE IF IsFinite(a) THEN b[1] > 0
    ELSE IF IsFinite(b) THEN a[1] < 0
    ELSE a[1] < b[1]

FLeq(a, b) == ~IsNaN(a) /\ ~IsNaN(b) /\ ~FLess(b, a)

\* == on doubles: nan is not equal to anything, itself included
FEq(a, b) == ~IsNaN(a) /\ ~IsNaN(b) /\ a = b

Min(a, b) == IF a < b THEN a ELSE b

\* math.floor and math.ceil of a finite number
Floor(a) == a[1] \div a[2]
Ceil(a) == -((-a[1]) \div a[2])

\* --------------------------------------------------------------- np.linspace
\* numpy.linspace(start, stop, num, endpoint) as numpy computes it:
\* step = (stop - start)/div, y[k] = k*step + start, and with endpoint=True
\* the last entry is set to stop itself.
Linspace(start, stop, num, endpoint) ==
    LET div == IF endpoint THEN num - 1 ELSE num
        delta == FSub(stop, start)
        step == FDiv(delta, Num(div))
        y(k) == IF FEq(step, Zero)
                THEN FMul(FDiv(Num(k), Num(div)), delta)
                ELSE FMul(Num(k), step)
    IN  [j \in 1..num |->
            IF endpoint /\ num > 1 /\ j = num THEN stop
            ELSE FAdd(y(j - 1), start)]

\* faulty variant: the regular index ignores start and stop
RegIndexFullRange(start, stop) == Linspace(Zero, One, NumRegular, TRUE)

\* reg_index = np.linspace(start, stop, 513)
RegIndex(start, stop) == Linspace(start, stop, NumRegular, TRUE)

\* faulty variant: a guarded division that puts the midpoint at 0 for equal bounds
MidpointGuarded(vmin, vcenter, vmax) ==
    IF FEq(vmax, vmin) THEN Zero ELSE FDiv(FSub(vcenter, vmin), FSub(vmax, vmin))

\* faulty variant: the midpoint clipped to [0, 1]
MidpointClipped(vmin, vcenter, vmax) ==
    LET m == FDiv(FSub(vcenter, vmin), FSub(vmax, vmin))
    IN  IF FLess(m, Zero) THEN Zero ELSE IF FLess(One, m) THEN One ELSE m

\* midpoint = np.diff([vmin, vcenter])[0] / np.diff([vmin, vmax])[0]
Midpoint(vmin, vcenter, vmax) == FDiv(FSub(vcenter, vmin), FSub(vmax, vmin))

\* faulty variant: endpoint=False forgotten, the lower half ends on midpoint itself
LowerHalfInclusive(midpoint) == Linspace(Zero, midpoint, NumLower, TRUE)

\* np.linspace(0.0, midpoint, 256, endpoint=False)
LowerHalf(midpoint) == Linspace(Zero, midpoint, NumLower, FALSE)

\* faulty variant: the upper half stops short of 1.0
UpperHalfOpen(midpoint) == Linspace(midpoint, One, NumUpper, FALSE)

\* np.linspace(midpoint, 1.0, 257, endpoint=True)
UpperHalf(midpoint) == Linspace(midpoint, One, NumUpper, TRUE)

\* faulty variant: the two sample counts exchanged
ShiftIndexSwappedCounts(midpoint) ==
    Linspace(Zero, midpoint, NumUpper, FALSE) \o Linspace(midpoint, One, NumLower, TRUE)

\* faulty variant: the two halves stacked in the wrong order
ShiftIndexUpperFirst(midpoint) == UpperHalf(midpoint) \o LowerHalf(midpoint)

\* shift_index = np.hstack([lower, upper])
ShiftIndex(midpoint) == LowerHalf(midpoint) \o UpperHalf(midpoint)

\* ------------------------------------------------------ the input gradient
\* The colormaps a call is given.  "coolwarm" stands for a named matplotlib
\* colormap: a lookup table of 256 colours, cmap(x) = lut[int(x*256)] with
\* x = 1 mapped to the last entry.  "ramp" is a gradient that is continuous
\* in x.  Both return four channels in [0,1].
Gradients == {"coolwarm", "ramp"}

LutColor(j) == <<Rat(j, LutSize - 1), Rat(LutSize - 1 - j, LutSize - 1),
                 Rat(Abs(2 * j - (LutSize - 1)), LutSize - 1), One>>

LutIndex(x) ==
    LET k == Floor(FMul(x, Num(LutSize)))
    IN  IF k < 0 THEN 0 ELSE IF k > LutSize - 1 THEN LutSize - 1 ELSE k

RampColor(x) ==
    LET t == FSub(FMul(Num(2), x), One)
    IN  <<x, FSub(One, x), IF FLess(t, Zero) THEN FNeg(t) ELSE t, One>>

\* r, g, b, a = cmap(ri)
Gradient(cmap, x) == IF cmap = "coolwarm" THEN LutColor(LutIndex(x)) ELSE RampColor(x)

\* ------------------------------------------------------------------- state
\* Two activations of CenteredColorMap; Heatmap runs on activation 1.
Calls == {1, 2}

VARIABLES
    pc,           \* pc[c]: the line activation c of CenteredColorMap is at
    args,         \* args[c]: cmap, vmin, vcenter, vmax, start, stop of the call
    cdict,        \* cdict[c]: the dict object the local name cdict is bound to
    heap,         \* heap[o]: the four channel lists of dict object o
    reg_index,    \* reg_index[c]
    midpoint,     \* midpoint[c]
    shift_index,  \* shift_index[c]
    pos,          \* pos[c]: how many pairs of zip(reg_index, shift_index) are consumed
    newcmap,      \* newcmap[c]: the LinearSegmentedColormap built at line 63
    hm,           \* the frame of Heatmap
    lp            \* the frame of TwoVarLineplot

vars == <<pc, args, cdict, heap, reg_index, midpoint, shift_index, pos, newcmap, hm, lp>>

\* cdict = {'red': [], 'green': [], 'blue': [], 'alpha': []}
EmptyCdict == [red |-> <<>>, green |-> <<>>, blue |-> <<>>, alpha |-> <<>>]

\* faulty variant: one dict object shared by every call
SharedCdict(c) == 1

\* the dict literal at lines 34-39 is a new object on every call: the object
\* of activation c is named c
NewCdict(c) == c

\* name='centered_cmap'
DefaultName == "centered_cmap"

\* zip stops with the shorter of its two arguments
ZipLen(c) == Min(Len(reg_index[c]), Len(shift_index[c]))

\* Where the interpreter may switch away from activation c: after any line
\* outside the loop, and in the loop every SwitchInterval iterations.
AtSwitchPoint(c) == ~(pc[c] = "L55" /\ pos[c] % SwitchInterval # 0 /\ pos[c] < ZipLen(c))

\* activation c runs its next step: the other activation is not in the
\* middle of a time slice
Scheduled(c) == \A o \in Calls \ {c} : AtSwitchPoint(o)

\* ------------------------------------------------ CenteredColorMap, by line
\* lines 34-39
Alloc(c) ==
    /\ Scheduled(c)
    /\ pc[c] = "L34"
    /\ cdict' = [cdict EXCEPT ![c] = NewCdict(c)]
    /\ heap' = [heap EXCEPT ![NewCdict(c)] = EmptyCdict]
    /\ pc' = [pc EXCEPT ![c] = "L42"]
    /\ UNCHANGED <<args, reg_index, midpoint, shift_index, pos, newcmap, hm, lp>>

\* line 42
ComputeRegIndex(c) ==
    /\ Scheduled(c)
    /\ pc[c] = "L42"
    /\ reg_index' = [reg_index EXCEPT ![c] = RegIndex(args[c].start, args[c].stop)]
    /\ pc' = [pc EXCEPT ![c] = "L45"]
    /\ UNCHANGED <<args, cdict, heap, midpoint, shift_index, pos, newcmap, hm, lp>>

\* line 45: numpy scalars divide by zero without raising
ComputeMidpoint(c) ==
    /\ Scheduled(c)
    /\ pc[c] = "L45"
    /\ midpoint' = [midpoint EXCEPT
                      ![c] = Midpoint(Num(args[c].vmin), Num(args[c].vcenter), Num(args[c].vmax))]
    /\ pc' = [pc EXCEPT ![c] = "L49"]
    /\ UNCHANGED <<args, cdict, heap, reg_index, shift_index, pos, newcmap, hm, lp>>

\* lines 49-52
ComputeShiftIndex(c) ==
    /\ Scheduled(c)
    /\ pc[c] = "L49"
    /\ shift_index' = [shift_index EXCEPT ![c] = ShiftIndex(midpoint[c])]
    /\ pos' = [pos EXCEPT ![c] = 0]
    /\ pc' = [pc EXCEPT ![c] = "L55"]
    /\ UNCHANGED <<args, cdict, heap, reg_index, midpoint, newcmap, hm, lp>>

\* faulty variant: the right-hand value stored on the 0..255 scale
ControlPointByteScale(si, v) == <<si, v, FMul(Num(255), v)>>

\* cdict[channel].append((si, v, v))
ControlPoint(si, v) == <<si, v, v>>

\* lines 55-61, one iteration
LoopBody(c) ==
    /\ Scheduled(c)
    /\ pc[c] = "L55"
    /\ pos[c] < ZipLen(c)
    /\ LET ri == reg_index[c][pos[c] + 1]
           si == shift_index[c][pos[c] + 1]
           rgba == Gradient(args[c].cmap, ri)
           d == heap[cdict[c]]
       IN  heap' = [heap EXCEPT ![cdict[c]] =
                      [red |-> Append(d.red, ControlPoint(si, rgba[1])),
                       green |-> Append(d.green, ControlPoint(si, rgba[2])),
                       blue |-> Append(d.blue, ControlPoint(si, rgba[3])),
                       alpha |-> Append(d.alpha, ControlPoint(si, rgba[4]))]]
    /\ pos' = [pos EXCEPT ![c] = pos[c] + 1]
    /\ UNCHANGED <<pc, args, cdict, reg_index, midpoint, shift_index, newcmap, hm, lp>>

\* line 55, zip exhausted
LoopExit(c) ==
    /\ Scheduled(c)
    /\ pc[c] = "L55"
    /\ pos[c] >= ZipLen(c)
    /\ pc' = [pc EXCEPT ![c] = "L63"]
    /\ UNCHANGED <<args, cdict, heap, reg_index, midpoint, shift_index, pos, newcmap, hm, lp>>

\* line 63: the constructor keeps the name and a reference to cdict; the
\* segment data is validated only when the colormap is first evaluated
Construct(c) ==
    /\ Scheduled(c)
    /\ pc[c] = "L63"
    /\ newcmap' = [newcmap EXCEPT ![c] = [name |-> DefaultName, segmentdata |-> cdict[c]]]
    /\ pc' = [pc EXCEPT ![c] = "L66"]
    /\ UNCHANGED <<args, cdict, heap, reg_index, midpoint, shift_index, pos, hm, lp>>

\* line 66
Return(c) ==
    /\ Scheduled(c)
    /\ pc[c] = "L66"
    /\ pc' = [pc EXCEPT ![c] = "done"]
    /\ UNCHANGED <<args, cdict, heap, reg_index, midpoint, shift_index, pos, newcmap, hm, lp>>

\* ----------------------------------------------------------------- Heatmap
\* An optional argument is <<>> (None) or <<v>>.
NoneV == <<>>
Some(v) == <<v>>

\* Python truth value of an optional number: None and 0 are false
Truthy(x) == x # NoneV /\ x[1] # 0

\* lines 157-158: if not vmax: vmax = math.ceil(data.max())
ResolveVmax(vmax, dataMax) == IF ~Truthy(vmax) THEN Some(Ceil(dataMax)) ELSE vmax

\* lines 160-161: if not vmin: vmin = math.floor(data.min())
ResolveVmin(vmin, dataMin) == IF ~Truthy(vmin) THEN Some(Floor(dataMin)) ELSE vmin

\* faulty variant: the guard for constant data left out
NeverConstant(vmin, vmax) == FALSE

\* line 163: if vmin == vmax
DataIsConstant(vmin, vmax) == vmin = vmax

\* cmaps.get(cmap): the registered colormap of that name
NamedCmap(name) == [kind |-> "named", name |-> name, segmentdata |-> 0]
SegmentedCmap(name, ref) == [kind |-> "segmented", name |-> name, segmentdata |-> ref]
NoCmap == [kind |-> "none", name |-> "", segmentdata |-> 0]

NoArgs == [cmap |-> "", vmin |-> 0, vcenter |-> 0, vmax |-> 0, start |-> Zero, stop |-> Zero]

HeatmapIdle ==
    [pc |-> "idle", given |-> [vmin |-> NoneV, vmax |-> NoneV], vmin |-> NoneV, vmax |-> NoneV,
     vcenter |-> NoneV, cmapName |-> "", dataMin |-> Zero, dataMax |-> Zero,
     cmap |-> NoCmap, im |-> NoCmap]

\* the arguments Heatmap is called with
HeatVmin == {NoneV, Some(0), Some(-1)}
HeatVmax == {NoneV, Some(0), Some(2)}
HeatVcenter == {NoneV, Some(0)}
\* (data.min(), data.max()): a varying field and a constant one
DataRanges == {<<Rat(-3, 2), Rat(3, 2)>>, <<One, One>>}

\* the call, and lines 142-145: irregular labels raise ValueError
HeatmapCall ==
    /\ hm.pc = "idle"
    /\ pc[1] = "idle"
    /\ \E lo \in HeatVmin, hi \in HeatVmax, vc \in HeatVcenter, d \in DataRanges, regular \in BOOLEAN :
          hm' = [HeatmapIdle EXCEPT
                   !.pc = IF regular THEN "L155" ELSE "raised",
                   !.given = [vmin |-> lo, vmax |-> hi],
                   !.vmin = lo, !.vmax = hi, !.vcenter = vc, !.cmapName = "coolwarm",
                   !.dataMin = d[1], !.dataMax = d[2]]
    /\ UNCHANGED <<pc, args, cdict, heap, reg_index, midpoint, shift_index, pos, newcmap, lp>>

\* lines 155-161: a centered colormap is requested, the bounds are resolved
HeatmapResolve ==
    /\ hm.pc = "L155"
    /\ hm.vcenter # NoneV
    /\ hm' = [hm EXCEPT !.vmax = ResolveVmax(hm.vmax, hm.dataMax),
                        !.vmin = ResolveVmin(hm.vmin, hm.dataMin),
                        !.pc = "L163"]
    /\ UNCHANGED <<pc, args, cdict, heap, reg_index, midpoint, shift_index, pos, newcmap, lp>>

\* lines 155, 169-170: no centered colormap requested
HeatmapNotCentered ==
    /\ hm.pc = "L155"
    /\ hm.vcenter = NoneV
    /\ hm' = [hm EXCEPT !.cmap = NamedCmap(hm.cmapName), !.pc = "L172"]
    /\ UNCHANGED <<pc, args, cdict, heap, reg_index, midpoint, shift_index, pos, newcmap, lp>>

\* lines 163-164: constant data, the original colormap is used
HeatmapConstant ==
    /\ hm.pc = "L163"
    /\ DataIsConstant(hm.vmin[1], hm.vmax[1])
    /\ hm' = [hm EXCEPT !.cmap = NamedCmap(hm.cmapName), !.pc = "L172"]
    /\ UNCHANGED <<pc, args, cdict, heap, reg_index, midpoint, shift_index, pos, newcmap, lp>>

\* lines 165-166: CenteredColorMap(cmaps.get(cmap), vmin=vmin, vmax=vmax, vcenter=vcenter)
HeatmapInvoke ==
    /\ hm.pc = "L163"
    /\ ~DataIsConstant(hm.vmin[1], hm.vmax[1])
    /\ args' = [args EXCEPT ![1] = [cmap |-> hm.cmapName, vmin |-> hm.vmin[1],
                                    vcenter |-> hm.vcenter[1], vmax |-> hm.vmax[1],
                                    start |-> Zero, stop |-> One]]
    /\ pc' = [pc EXCEPT ![1] = "L34"]
    /\ hm' = [hm EXCEPT !.pc = "L166"]
    /\ UNCHANGED <<cdict, heap, reg_index, midpoint, shift_index, pos, newcmap, lp>>

\* line 166: cmap = the colormap CenteredColorMap returned
HeatmapAssign ==
    /\ hm.pc = "L166"
    /\ pc[1] = "done"
    /\ hm' = [hm EXCEPT !.cmap = newcmap[1], !.pc = "L172"]
    /\ UNCHANGED <<pc, args, cdict, heap, reg_index, midpoint, shift_index, pos, newcmap, lp>>

\* lines 186 and 256: imshow(data, cmap=cmap, vmin=vmin, vmax=vmax)
HeatmapImshow ==
    /\ hm.pc = "L172"
    /\ hm' = [hm EXCEPT !.im = hm.cmap, !.pc = "done"]
    /\ UNCHANGED <<pc, args, cdict, heap, reg_index, midpoint, shift_index, pos, newcmap, lp>>

\* ------------------------------------------------------------ direct calls
Vals == -1..MaxVal

\* (start, stop): the defaults, and the middle part of the input gradient
Offsets == {<<Zero, One>>, <<Rat(1, OffsetDen), Rat(OffsetDen - 1, OffsetDen)>>}

\* (cmap, start, stop) of a direct call
Profiles == {p \in Gradients \X Offsets : p[1] = "ramp" \/ p[2] = <<Zero, One>>}

DirectArgs ==
    {[cmap |-> p[1], vmin |-> 0, vcenter |-> vc, vmax |-> vx, start |-> p[2][1], stop |-> p[2][2]] :
        p \in Profiles, vc \in Vals, vx \in Vals}

\* CenteredColorMap(cmap, vmin, vcenter, vmax, start, stop) called by a user
Invoke(c) ==
    /\ pc[c] = "idle"
    /\ hm.pc = "idle"
    /\ \E a \in DirectArgs : args' = [args EXCEPT ![c] = a]
    /\ pc' = [pc EXCEPT ![c] = "L34"]
    /\ hm' = [hm EXCEPT !.pc = "unused"]
    /\ UNCHANGED <<cdict, heap, reg_index, midpoint, shift_index, pos, newcmap, lp>>

\* ------------------------------------------------------------ TwoVarLineplot
\* CRF_lineplot.py.  A Python str is the sequence of its characters, a list of
\* colors is a sequence of such strings, and None or an empty list of caption
\* labels is the empty sequence (both are false at lines 84 and 100).

\* colors: None, a str, or a list of color names
NoColors == [kind |-> "none", items |-> <<>>]
StrColors(s) == [kind |-> "str", items |-> s]
ListColors(l) == [kind |-> "list", items |-> l]

\* the default colors='k', and a color given by its name
ColorStrings == {<<"k">>, <<"r", "e", "d">>}

\* the colors of a palette, in order
Palette == <<"r", "b", "g", "c", "m", "y">>

\* lists holding the first n colors of the palette
ColorLists == {[i \in 1..n |-> <<Palette[i]>>] : n \in 0..(MaxCols + 1)}

ColorInputs == {NoColors} \cup {StrColors(s) : s \in ColorStrings} \cup {ListColors(l) : l \in ColorLists}

\* caption_labels = ['A', 'B', 'C', 'D', 'E'], cut to the columns of the array
Captions == <<"A", "B", "C", "D", "E">>

\* x_axis: a list of n ticks, or an object without a length
Ticks(n) == [sized |-> TRUE, len |-> n]
Unsized == [sized |-> FALSE, len |-> 0]

\* z_dim: lists of column indices, among them the empty list and the index
\* one past the last column of the widest array
ZDims == UNION {[1..n -> 0..MaxCols] : n \in 0..MaxLines}

\* threshold: None, 0 as in the demo, 1
Thresholds == {NoneV, Some(0), Some(1)}

NoError == [type |-> "", msg |-> ""]
PyError(t, m) == [type |-> t, msg |-> m]

XAxisError == PyError("ValueError", "The x_axis must have the same length as the array")
ColorsError == PyError("ValueError", "The number of colors must be equal to the number of z_dim")
ZDimError ==
    PyError("ValueError", "The maximum value of z_dim must be less than the number of dimensions of the array")

LineplotIdle ==
    [pc |-> "idle", array |-> [rows |-> 0, cols |-> 0], x_axis |-> Unsized, z_dim |-> <<>>,
     colors |-> NoColors, caption_labels |-> <<>>, threshold |-> NoneV,
     fig |-> FALSE, pos |-> 0, lines |-> <<>>, hlines |-> <<>>, error |-> NoError]

\* entry of TwoVarLineplot(array, x_axis, z_dim, colors=, caption_labels=, threshold=)
LineplotCall ==
    /\ lp.pc = "idle"
    /\ hm.pc = "idle"
    /\ pc[1] = "idle"
    /\ \E r \in 1..MaxRows, m \in 1..MaxCols, x \in {Ticks(n) : n \in 1..MaxRows} \cup {Unsized},
          zs \in ZDims, cs \in ColorInputs, withCaptions \in BOOLEAN, t \in Thresholds :
            lp' = [LineplotIdle EXCEPT !.pc = "L65",
                                       !.array = [rows |-> r, cols |-> m],
                                       !.x_axis = x,
                                       !.z_dim = zs,
                                       !.colors = cs,
                                       !.caption_labels = IF withCaptions THEN SubSeq(Captions, 1, m) ELSE <<>>,
                                       !.threshold = t]
    /\ UNCHANGED <<pc, args, cdict, heap, reg_index, midpoint, shift_index, pos, newcmap, hm>>

LineplotRaise(e) == lp' = [lp EXCEPT !.pc = "raised", !.error = e]

\* lines 65-68: the comparison is evaluated and its value dropped; the except
\* clause runs only when len(x_axis) or array.shape[0] itself raises
ValidateXAxis ==
    /\ lp.pc = "L65"
    /\ IF lp.x_axis.sized
       THEN lp' = [lp EXCEPT !.pc = "L70"]
       ELSE LineplotRaise(XAxisError)
    /\ UNCHANGED <<pc, args, cdict, heap, reg_index, midpoint, shift_index, pos, newcmap, hm>>

\* lines 70-73: len(None) raises, len of a str or a list does not
ValidateColors ==
    /\ lp.pc = "L70"
    /\ IF lp.colors.kind # "none"
       THEN lp' = [lp EXCEPT !.pc = "L75"]
       ELSE LineplotRaise(ColorsError)
    /\ UNCHANGED <<pc, args, cdict, heap, reg_index, midpoint, shift_index, pos, newcmap, hm>>

\* lines 75-78: max() of an empty list raises
ValidateZDim ==
    /\ lp.pc = "L75"
    /\ IF lp.z_dim # <<>>
       THEN lp' = [lp EXCEPT !.pc = "L81"]
       ELSE LineplotRaise(ZDimError)
    /\ UNCHANGED <<pc, args, cdict, heap, reg_index, midpoint, shift_index, pos, newcmap, hm>>

\* line 81: fig, ax = plt.subplots(figsize=figsize)
Subplots ==
    /\ lp.pc = "L81"
    /\ lp' = [lp EXCEPT !.pc = "L83", !.fig = TRUE, !.pos = 0]
    /\ UNCHANGED <<pc, args, cdict, heap, reg_index, midpoint, shift_index, pos, newcmap, hm>>

\* seq[z] of a str or a list, for z >= 0
InRange(seq, z) == z < Len(seq)

\* colors[z]: a character of a str, an element of a list
ColorAt(colors, z) ==
    IF colors.kind = "str" THEN <<colors.items[z + 1]>> ELSE colors.items[z + 1]

\* the colors ax.plot accepts: the one-letter colors and the names
IsColor(s) ==
    \/ Len(s) = 1 /\ s[1] \in {"b", "g", "r", "c", "m", "y", "k", "w"}
    \/ s \in {<<"r", "e", "d">>}

\* lines 84-88, one iteration: the exception raised, or NoError
PlotError(f, z) ==
    IF f.caption_labels # <<>> /\ ~InRange(f.caption_labels, z)
    THEN PyError("IndexError", "list index out of range")
    ELSE IF ~(z < f.array.cols)
    THEN PyError("IndexError", "index is out of bounds for axis 1")
    ELSE IF f.colors.kind = "none"
    THEN PyError("TypeError", "'NoneType' object is not subscriptable")
    ELSE IF ~InRange(f.colors.items, z)
    THEN PyError("IndexError", IF f.colors.kind = "str" THEN "string index out of range"
                                                         ELSE "list index out of range")
    ELSE IF f.x_axis.len # f.array.rows
    THEN PyError("ValueError", "x and y must have same first dimension")
    ELSE IF ~IsColor(ColorAt(f.colors, z))
    THEN PyError("ValueError", "not a valid value for color")
    ELSE NoError

\* ax.plot(x_axis, array[:,z], color=colors[z], label=label, lw=linewidth)
PlottedLine(f, z) ==
    [column |-> z,
     color |-> ColorAt(f.colors, z),
     label |-> IF f.caption_labels # <<>> THEN Some(f.caption_labels[z + 1]) ELSE NoneV]

\* lines 83-88: for z in z_dim
PlotLine ==
    /\ lp.pc = "L83"
    /\ lp.pos < Len(lp.z_dim)
    /\ LET z == lp.z_dim[lp.pos + 1]
       IN  IF PlotError(lp, z) = NoError
           THEN lp' = [lp EXCEPT !.pos = @ + 1, !.lines = Append(@, PlottedLine(lp, z))]
           ELSE LineplotRaise(PlotError(lp, z))
    /\ UNCHANGED <<pc, args, cdict, heap, reg_index, midpoint, shift_index, pos, newcmap, hm>>

PlotDone ==
    /\ lp.pc = "L83"
    /\ lp.pos = Len(lp.z_dim)
    /\ lp' = [lp EXCEPT !.pc = "L90"]
    /\ UNCHANGED <<pc, args, cdict, heap, reg_index, midpoint, shift_index, pos, newcmap, hm>>

\* ax.axhline(threshold, color=color_threshold, linestyle='--', label=label_threshold)
HLine(y) == [y |-> y, color |-> "red", linestyle |-> "--", label |-> "Target"]

\* lines 90-91: if threshold: ax.axhline(...)
ThresholdLine ==
    /\ lp.pc = "L90"
    /\ lp' = [lp EXCEPT !.pc = "L93",
                        !.hlines = IF Truthy(lp.threshold) THEN Append(@, HLine(lp.threshold[1])) ELSE @]
    /\ UNCHANGED <<pc, args, cdict, heap, reg_index, midpoint, shift_index, pos, newcmap, hm>>

\* lines 93-124: titles, legend, grid, layout; return fig, ax
LineplotReturn ==
    /\ lp.pc = "L93"
    /\ lp' = [lp EXCEPT !.pc = "done"]
    /\ UNCHANGED <<pc, args, cdict, heap, reg_index, midpoint, shift_index, pos, newcmap, hm>>

\* ---------------------------------------------------------- specifications
Init ==
    /\ pc = [c \in Calls |-> "idle"]
    /\ args = [c \in Calls |-> NoArgs]
    /\ cdict = [c \in Calls |-> 0]
    /\ heap = [o \in Calls |-> EmptyCdict]
    /\ reg_index = [c \in Calls |-> <<>>]
    /\ midpoint = [c \in Calls |-> NoneV]
    /\ shift_index = [c \in Calls |-> <<>>]
    /\ pos = [c \in Calls |-> 0]
    /\ newcmap = [c \in Calls |-> NoCmap]
    /\ hm = HeatmapIdle
    /\ lp = LineplotIdle

\* one call of CenteredColorMap, made directly or by Heatmap
Next ==
    \/ Invoke(1)
    \/ HeatmapCall
    \/ HeatmapResolve
    \/ HeatmapNotCentered
    \/ HeatmapConstant
    \/ HeatmapInvoke
    \/ HeatmapAssign
    \/ HeatmapImshow
    \/ Alloc(1)
    \/ ComputeRegIndex(1)
    \/ ComputeMidpoint(1)
    \/ ComputeShiftIndex(1)
    \/ LoopBody(1)
    \/ LoopExit(1)
    \/ Construct(1)
    \/ Return(1)

Spec == Init /\ [][Next]_vars

\* Two activations called with the same arguments, scheduled in any order.
PureArgs == {a \in DirectArgs : a.vcenter = 1 /\ a.vmax = MaxVal /\ a.start = Zero}

InitPure ==
    /\ pc = [c \in Calls |-> "L34"]
    /\ \E a \in PureArgs : args = [c \in Calls |-> a]
    /\ cdict = [c \in Calls |-> 0]
    /\ heap = [o \in Calls |-> EmptyCdict]
    /\ reg_index = [c \in Calls |-> <<>>]
    /\ midpoint = [c \in Calls |-> NoneV]
    /\ shift_index = [c \in Calls |-> <<>>]
    /\ pos = [c \in Calls |-> 0]
    /\ newcmap = [c \in Calls |-> NoCmap]
    /\ hm = [HeatmapIdle EXCEPT !.pc = "unused"]
    /\ lp = LineplotIdle

NextPure ==
    \E c \in Calls :
        \/ Alloc(c)
        \/ ComputeRegIndex(c)
        \/ ComputeMidpoint(c)
        \/ ComputeShiftIndex(c)
        \/ LoopBody(c)
        \/ LoopExit(c)
        \/ Construct(c)
        \/ Return(c)

SpecPure == InitPure /\ [][NextPure]_vars

\* One call of TwoVarLineplot.
NextLine ==
    \/ LineplotCall
    \/ ValidateXAxis
    \/ ValidateColors
    \/ ValidateZDim
    \/ Subplots
    \/ PlotLine
    \/ PlotDone
    \/ ThresholdLine
    \/ LineplotReturn

SpecLine == Init /\ [][NextLine]_vars

\* ------------------------------------------- evaluating the output gradient
\* The colormap object is evaluated by matplotlib; following section 4.1,
\* step 5 of the specification it is the piecewise-linear interpolation of
\* the control points of each channel, exact at the control points.  Rows are
\* (x, y0, y1).  As in matplotlib's lookup table, segment data whose x does
\* not start at 0, end at 1 and never decrease is rejected (ValueError); the
\* value at 0 is y1 of the first row, the value at 1 is y0 of the last row,
\* and in between the value is interpolated from the row before the first
\* row whose x is >= t (np.searchsorted).
ValidSegments(rows) ==
    /\ Len(rows) > 0
    /\ FEq(rows[1][1], Zero)
    /\ FEq(rows[Len(rows)][1], One)
    /\ \A j \in 1..(Len(rows) - 1) : ~FLess(FSub(rows[j + 1][1], rows[j][1]), Zero)

\* np.searchsorted(x, t): by bisection, the first row whose x is not below t
\* (rows lo+1..hi are still candidates; Len(rows) + 1 if there is none)
RECURSIVE Bisect(_, _, _, _)
Bisect(rows, t, lo, hi) ==
    IF lo >= hi THEN lo + 1
    ELSE LET mid == (lo + hi) \div 2
         IN  IF FLess(rows[mid + 1][1], t)
             THEN Bisect(rows, t, mid + 1, hi)
             ELSE Bisect(rows, t, lo, mid)

SearchSorted(rows, t) == Bisect(rows, t, 0, Len(rows))

Interpolate(rows, t) ==
    IF t = Zero THEN rows[1][3]
    ELSE IF t = One THEN rows[Len(rows)][2]
    ELSE LET ind == SearchSorted(rows, t)
             lo == rows[ind - 1]
             hi == rows[ind]
             distance == FDiv(FSub(t, lo[1]), FSub(hi[1], lo[1]))
         IN  FAdd(FMul(distance, FSub(hi[2], lo[3])), lo[3])

\* the colour of a segmented colormap with segment data d at position t
EvalSegments(d, t) ==
    <<Interpolate(d.red, t), Interpolate(d.green, t),
      Interpolate(d.blue, t), Interpolate(d.alpha, t)>>

Evaluable(d) ==
    ValidSegments(d.red) /\ ValidSegments(d.green) /\ ValidSegments(d.blue) /\ ValidSegments(d.alpha)

\* ================================================================== claims
Done(c) == pc[c] = "done"

\* the control-point table of the colormap activation c returned
Table(c) == heap[newcmap[c].segmentdata]

\* vmin != vmax and vmin <= vcenter <= vmax
ValidAnchors(a) == a.vmin # a.vmax /\ a.vmin <= a.vcenter /\ a.vcenter <= a.vmax

\* vmin < vcenter < vmax
InteriorAnchors(a) == a.vmin < a.vcenter /\ a.vcenter < a.vmax

DefaultOffsets(a) == a.start = Zero /\ a.stop = One

\* the positions at which the output gradient is queried
Queries == {Rat(q, QueryDen) : q \in 0..QueryDen}

InUnit(v) == FLeq(Zero, v) /\ FLeq(v, One)

\* C1 as stated: for every valid anchor triple, the boundary cases
\* vcenter = vmin and vcenter = vmax included, and default start and stop, the
\* returned gradient at midpoint equals the input gradient at 0.5.
C1_AsStated ==
    (Done(1) /\ ValidAnchors(args[1]) /\ DefaultOffsets(args[1]))
        => /\ Evaluable(Table(1))
           /\ EvalSegments(Table(1), midpoint[1]) = Gradient(args[1].cmap, Rat(1, 2))

\* C1 amended: for vmin < vcenter < vmax and default start and stop, the
\* returned gradient at midpoint = (vcenter - vmin)/(vmax - vmin) equals the
\* input gradient at 0.5.
C1_CenterRelocation ==
    (Done(1) /\ InteriorAnchors(args[1]) /\ DefaultOffsets(args[1]))
        => /\ midpoint[1] = Rat(args[1].vcenter - args[1].vmin, args[1].vmax - args[1].vmin)
           /\ Evaluable(Table(1))
           /\ EvalSegments(Table(1), midpoint[1]) = Gradient(args[1].cmap, Rat(1, 2))

C1_Witness ==
    /\ Done(1) /\ InteriorAnchors(args[1]) /\ DefaultOffsets(args[1])
    /\ midpoint[1] = Rat(1, 3)
    /\ EvalSegments(Table(1), midpoint[1]) = Gradient(args[1].cmap, Rat(1, 2))

\* C2: for every valid anchor triple (boundary cases included) and every
\* start < stop, the returned gradient at 0 equals the input gradient at
\* start and the returned gradient at 1 equals the input gradient at stop.
C2_EndpointPreservation ==
    (Done(1) /\ ValidAnchors(args[1]))
        => /\ Evaluable(Table(1))
           /\ EvalSegments(Table(1), Zero) = Gradient(args[1].cmap, args[1].start)
           /\ EvalSegments(Table(1), One) = Gradient(args[1].cmap, args[1].stop)

C2_Witness ==
    /\ Done(1) /\ args[1].vcenter = args[1].vmin /\ args[1].vmin < args[1].vmax
    /\ ~DefaultOffsets(args[1])
    /\ midpoint[1] = Zero
    /\ EvalSegments(Table(1), Zero) = Gradient(args[1].cmap, args[1].start)

Symmetric(a) == a.vmin # a.vmax /\ 2 * a.vcenter = a.vmin + a.vmax

\* the source position start + t*(stop - start)
Restricted(a, t) == FAdd(a.start, FMul(t, FSub(a.stop, a.start)))

SymmetricPositions(c) ==
    /\ midpoint[c] = Rat(1, 2)
    /\ Len(shift_index[c]) = NumRegular
    /\ \A k \in 0..(NumRegular - 1) : shift_index[c][k + 1] = Rat(k, NumRegular - 1)

\* C3 as stated: in the symmetric case the output gradient equals the input
\* gradient restricted to [start, stop] at every position t of [0,1].
C3_AsStated ==
    (Done(1) /\ Symmetric(args[1]))
        => /\ SymmetricPositions(1)
           /\ Evaluable(Table(1))
           /\ \A t \in Queries :
                 EvalSegments(Table(1), t) = Gradient(args[1].cmap, Restricted(args[1], t))

\* C3 amended: in the symmetric case midpoint is 0.5, the 513 target positions
\* are k/512, and at each of these positions t the output gradient equals the
\* input gradient at start + t*(stop - start).
C3_SymmetricIdentity ==
    (Done(1) /\ Symmetric(args[1]))
        => /\ SymmetricPositions(1)
           /\ Evaluable(Table(1))
           /\ \A k \in 0..(NumRegular - 1) :
                 LET t == Rat(k, NumRegular - 1)
                 IN  EvalSegments(Table(1), t) = Gradient(args[1].cmap, Restricted(args[1], t))

C3_Witness ==
    /\ Done(1) /\ Symmetric(args[1]) /\ ~DefaultOffsets(args[1])
    /\ SymmetricPositions(1)
    /\ EvalSegments(Table(1), Rat(1, 4)) = Gradient(args[1].cmap, Restricted(args[1], Rat(1, 4)))

NonDecreasing(xs) == \A j \in 1..(Len(xs) - 1) : FLeq(xs[j], xs[j + 1])

\* the shifted index has just been built, or the call has returned
ShiftIndexBuilt(c) == (pc[c] = "L55" /\ pos[c] = 0) \/ Done(c)

\* C4: for every valid anchor triple the shifted index has exactly 513
\* positions, none smaller than the one before, the first 0.0, the last 1.0.
C4_MonotonicSampling ==
    (ShiftIndexBuilt(1) /\ ValidAnchors(args[1]))
        => /\ Len(shift_index[1]) = NumRegular
           /\ shift_index[1][1] = Zero
           /\ shift_index[1][NumRegular] = One
           /\ NonDecreasing(shift_index[1])

C4_Witness ==
    /\ pc[1] = "L55" /\ pos[1] = 0
    /\ InteriorAnchors(args[1]) /\ ~Symmetric(args[1])
    /\ Len(shift_index[1]) = NumRegular
    /\ NonDecreasing(shift_index[1])

RowsInUnit(rows) == \A j \in 1..Len(rows) : InUnit(rows[j][2]) /\ InUnit(rows[j][3])

\* the input gradient is within [0,1] wherever the call samples it
InputInUnit(c) ==
    \A j \in 1..Len(reg_index[c]) :
        \A ch \in 1..4 : InUnit(Gradient(args[c].cmap, reg_index[c][j])[ch])

\* C5: given an input gradient within [0,1], for every valid anchor triple
\* the control-point values and the values interpolated at every query
\* position of [0,1] are within [0,1], on all four channels.
C5_ChannelBounds ==
    (Done(1) /\ ValidAnchors(args[1]) /\ InputInUnit(1))
        => /\ Evaluable(Table(1))
           /\ RowsInUnit(Table(1).red) /\ RowsInUnit(Table(1).green)
           /\ RowsInUnit(Table(1).blue) /\ RowsInUnit(Table(1).alpha)
           /\ \A t \in Queries : \A ch \in 1..4 : InUnit(EvalSegments(Table(1), t)[ch])

C5_Witness ==
    /\ Done(1) /\ InteriorAnchors(args[1]) /\ InputInUnit(1)
    /\ \E t \in Queries :
          /\ \A j \in 1..NumRegular : shift_index[1][j] # t
          /\ \A ch \in 1..4 : InUnit(EvalSegments(Table(1), t)[ch])

Called(c) == pc[c] # "idle"

PastMidpoint(c) == pc[c] \in {"L49", "L55", "L63", "L66", "done"}

HasAllControlPoints(d) ==
    /\ Len(d.red) = NumRegular /\ Len(d.green) = NumRegular
    /\ Len(d.blue) = NumRegular /\ Len(d.alpha) = NumRegular

\* the target positions of table d run from 0 to 1 without decreasing
ProperSchedule(d) ==
    /\ Len(d.red) > 0
    /\ d.red[1][1] = Zero
    /\ d.red[Len(d.red)][1] = One
    /\ \A j \in 1..(Len(d.red) - 1) : FLeq(d.red[j][1], d.red[j + 1][1])

\* C6 as stated: a call with vmin = vmax ends in an error at the midpoint
\* computation and never goes on to build control points or return.
C6_AsStated ==
    (Called(1) /\ args[1].vmin = args[1].vmax) => ~PastMidpoint(1)

\* C6 amended: a call with vmin = vmax does not end at the midpoint
\* computation: the division yields inf, -inf or nan, the call goes on to build
\* 513 control points per channel and returns a gradient whose first target
\* position is nan.
C6_EqualBoundsNotRejected ==
    (Called(1) /\ args[1].vmin = args[1].vmax)
        => /\ PastMidpoint(1) => ~IsFinite(midpoint[1])
           /\ Done(1) => /\ HasAllControlPoints(Table(1))
                         /\ \A ch \in {Table(1).red, Table(1).green, Table(1).blue, Table(1).alpha} :
                               IsNaN(ch[1][1])

C6_Witness ==
    /\ Done(1) /\ args[1].vmin = args[1].vmax
    /\ midpoint[1] = <<1, 0>>
    /\ HasAllControlPoints(Table(1))

OutOfRange(a) == a.vcenter < a.vmin \/ a.vcenter > a.vmax

\* C7 as stated: for every input with vmin != vmax and vcenter < vmin or
\* vcenter > vmax the call raises no error, midpoint is outside [0,1], and the
\* returned gradient has 513 control points whose target positions do not run
\* from 0 to 1 without decreasing.
C7_AsStated ==
    (Called(1) /\ args[1].vmin # args[1].vmax /\ OutOfRange(args[1]))
        => /\ PastMidpoint(1) => ~InUnit(midpoint[1])
           /\ Done(1) => HasAllControlPoints(Table(1)) /\ ~ProperSchedule(Table(1))

\* C7 amended: the same for every input with vmin < vmax and vcenter < vmin
\* or vcenter > vmax.
C7_OutOfRangeNotRejected ==
    (Called(1) /\ args[1].vmin < args[1].vmax /\ OutOfRange(args[1]))
        => /\ PastMidpoint(1) => IsFinite(midpoint[1]) /\ ~InUnit(midpoint[1])
           /\ Done(1) => HasAllControlPoints(Table(1)) /\ ~ProperSchedule(Table(1))

C7_Witness ==
    /\ Done(1) /\ args[1].vmin < args[1].vmax /\ args[1].vcenter > args[1].vmax
    /\ FLess(One, midpoint[1])
    /\ HasAllControlPoints(Table(1))
    /\ ~ProperSchedule(Table(1))

HeatmapRunning == hm.pc \notin {"idle", "unused"}

\* C8: Heatmap never invokes CenteredColorMap with vmin = vmax; it invokes it
\* exactly when vcenter is not None and the resolved vmin and vmax differ, and
\* otherwise the heatmap is drawn with the original named colormap.
C8_CallerGuard ==
    HeatmapRunning
        => /\ Called(1) => args[1].vmin # args[1].vmax
           /\ hm.pc \in {"L172", "done"}
                 => /\ Called(1) <=> (hm.vcenter # NoneV /\ hm.vmin # hm.vmax)
                    /\ ~Called(1) => hm.cmap = NamedCmap(hm.cmapName)
                    /\ hm.pc = "done" => hm.im = hm.cmap

C8_Witness ==
    /\ hm.pc = "done" /\ hm.vcenter # NoneV /\ hm.vmin = hm.vmax
    /\ ~Called(1)
    /\ hm.im = NamedCmap(hm.cmapName)

\* C9: the vmax (vmin) Heatmap passes to CenteredColorMap is the caller's
\* whenever the caller gave one, 0 included, and ceil(data.max())
\* (floor(data.min())) only when the caller gave None.
C9_BoundDefaulting ==
    (HeatmapRunning /\ Called(1))
        => /\ args[1].vmax = IF hm.given.vmax # NoneV THEN hm.given.vmax[1] ELSE Ceil(hm.dataMax)
           /\ args[1].vmin = IF hm.given.vmin # NoneV THEN hm.given.vmin[1] ELSE Floor(hm.dataMin)

\* the table a call with arguments a builds when nothing else runs
ExpectedChannel(a, ch) ==
    LET reg == RegIndex(a.start, a.stop)
        shift == ShiftIndex(Midpoint(Num(a.vmin), Num(a.vcenter), Num(a.vmax)))
    IN  [k \in 1..Min(Len(reg), Len(shift)) |->
            <<shift[k], Gradient(a.cmap, reg[k])[ch], Gradient(a.cmap, reg[k])[ch]>>]

ExpectedTable(a) ==
    [red |-> ExpectedChannel(a, 1), green |-> ExpectedChannel(a, 2),
     blue |-> ExpectedChannel(a, 3), alpha |-> ExpectedChannel(a, 4)]

\* the dict of activation c holds the control points c appended, no others
OwnAppendsOnly(c) ==
    pc[c] # "L34"
        => /\ Len(heap[cdict[c]].red) = pos[c] /\ Len(heap[cdict[c]].green) = pos[c]
           /\ Len(heap[cdict[c]].blue) = pos[c] /\ Len(heap[cdict[c]].alpha) = pos[c]

PureState ==
    /\ \A c \in Calls : OwnAppendsOnly(c)
    /\ (Done(1) /\ Done(2))
          => /\ newcmap[1].segmentdata # newcmap[2].segmentdata
             /\ Table(1) = Table(2)
             /\ Table(1) = ExpectedTable(args[1])

LineplotEnded == lp.pc \in {"done", "raised"}

\* x_axis has as many ticks as the array has rows (array.shape[0])
XAxisMatches == lp.x_axis.sized /\ lp.x_axis.len = lp.array.rows

\* every index of z_dim is a column of the array (max(z_dim) < array.shape[1])
ZDimInArray == lp.z_dim # <<>> /\ \A i \in 1..Len(lp.z_dim) : lp.z_dim[i] < lp.array.cols

\* C11: when colors is a single string that names a color ('k', 'red'), the
\* x_axis fits the array and every index of z_dim, indices above 0 included,
\* is a column of the array, the call ends without an error and has plotted
\* one line per index of z_dim, column array[:, z], each in that same color.
C11_SingleColorString ==
    (LineplotEnded /\ lp.colors.kind = "str" /\ IsColor(lp.colors.items) /\ XAxisMatches /\ ZDimInArray)
        => /\ lp.pc = "done"
           /\ Len(lp.lines) = Len(lp.z_dim)
           /\ \A i \in 1..Len(lp.lines) :
                 lp.lines[i].column = lp.z_dim[i] /\ lp.lines[i].color = lp.colors.items

\* C12: a call that returns has drawn the horizontal line exactly when
\* threshold is not None: no horizontal line for None, and for every number,
\* 0 included, one dashed line at that value.
C12_ThresholdLine ==
    lp.pc = "done"
        => IF lp.threshold = NoneV
           THEN lp.hlines = <<>>
           ELSE /\ Len(lp.hlines) = 1
                /\ lp.hlines[1].y = lp.threshold[1]
                /\ lp.hlines[1].linestyle = "--"

\* the three conditions the validation of lines 65-78 names
ColorsMatch == lp.colors.kind # "none" /\ Len(lp.colors.items) = Len(lp.z_dim)

FailedValidations ==
    (IF XAxisMatches THEN {} ELSE {XAxisError})
        \cup (IF ColorsMatch THEN {} ELSE {ColorsError})
        \cup (IF ZDimInArray THEN {} ELSE {ZDimError})

\* C14: a call whose x_axis length differs from array.shape[0], whose number
\* of colors differs from the number of z_dim, or whose largest z_dim is not
\* below array.shape[1] ends with the ValueError of a failed condition before
\* any figure is created; a call meeting all three conditions returns with
\* one line plotted per element of z_dim.
C14_InputValidation ==
    LineplotEnded
        => IF FailedValidations # {}
           THEN lp.pc = "raised" /\ lp.error \in FailedValidations /\ ~lp.fig
           ELSE lp.pc = "done" /\ Len(lp.lines) = Len(lp.z_dim)

\* ----------------------------------------------------------- sample schedule
\* the construction loop of activation c has ended
AfterLoop(c) == pc[c] \in {"L63", "L66", "done"}

\* target position of control point k (from 0): k*m/256 below index 256,
\* m + (k-256)*(1-m)/256 from index 256 on
TargetPosition(m, k) ==
    IF k < NumLower
    THEN FDiv(FMul(Num(k), m), Num(NumLower))
    ELSE FAdd(m, FDiv(FMul(Num(k - NumLower), FSub(One, m)), Num(NumLower)))

\* source position of control point k: start + k*(stop-start)/512
SourcePosition(a, k) ==
    FAdd(a.start, FDiv(FMul(Num(k), FSub(a.stop, a.start)), Num(NumRegular - 1)))

\* channel ch of table d follows the schedule for arguments a and midpoint m
OnSchedule(rows, a, m, ch) ==
    /\ Len(rows) = NumRegular
    /\ \A k \in 0..(NumRegular - 1) :
          rows[k + 1] = <<TargetPosition(m, k),
                          Gradient(a.cmap, SourcePosition(a, k))[ch],
                          Gradient(a.cmap, SourcePosition(a, k))[ch]>>

\* C13: for every input with vmin != vmax, after the construction loop each
\* of the four channel lists holds exactly 513 control points; control point
\* k sits at k*midpoint/256 for k < 256 and at midpoint + (k-256)*(1-midpoint)/256
\* for k >= 256, so index 256 is at midpoint and no lower index is unless
\* midpoint is 0; its color is the input gradient at start + k*(stop-start)/512.
C13_SampleSchedule ==
    (AfterLoop(1) /\ args[1].vmin # args[1].vmax)
        => LET d == heap[cdict[1]]
               m == midpoint[1]
           IN  /\ m = FDiv(Num(args[1].vcenter - args[1].vmin), Num(args[1].vmax - args[1].vmin))
               /\ OnSchedule(d.red, args[1], m, 1)
               /\ OnSchedule(d.green, args[1], m, 2)
               /\ OnSchedule(d.blue, args[1], m, 3)
               /\ OnSchedule(d.alpha, args[1], m, 4)
               /\ d.red[NumLower + 1][1] = m
               /\ m # Zero => \A k \in 1..NumLower : d.red[k][1] # m

C13_Witness ==
    /\ Done(1)
    /\ args[1].vmin # args[1].vmax
    /\ ~DefaultOffsets(args[1])
    /\ midpoint[1] \notin {Zero, Rat(1, 2), One}
    /\ HasAllControlPoints(Table(1))
    /\ Table(1).red[NumLower + 1][1] = midpoint[1]
    /\ Table(1).red[2][1] = FDiv(midpoint[1], Num(NumLower))

====
